---- MODULE Spec2Model ----
(***************************************************************************)
(* Memoradical: the flashcard Model component (src/src/main.rs), the       *)
(* LocalStore wrapper (src/src/localstore.rs) and the statistics of the    *)
(* Stats view (Model::stats_html, and the Stats component of               *)
(* src/src/components.rs).                                                 *)
(*                                                                         *)
(* The state is the Model struct plus the browser's LocalStorage entry,    *)
(* the component's pending message queue, the file reads in flight and the *)
(* upload-error timer.  One action per Msg handler of Model::update; each  *)
(* action includes the re-selection that update performs after the match   *)
(* and the indexing done by view when the handler asks for a render.       *)
(* Positions are 0-based as in the source; cards[i + 1] is the card at     *)
(* position i.  Option<T> is a sequence: None == <<>>, Some(x) == <<x>>.    *)
(* A panic (unwrap on Err/None, index out of range) ends the run: crashed  *)
(* records which one and no handler runs afterwards.                       *)
(*                                                                         *)
(* A handler runs only where view offers its button, key or input: the     *)
(* Study view has Next, Prev, Hit, Miss, Edit and the three check boxes,   *)
(* the card table has Edit(i), Delete(i) and the upload input, the form    *)
(* has the two text inputs and Add/Update.  The table is taken to show     *)
(* every row (n_rows_displayed >= cards.len()).  Not modelled: the visible *)
(* face, the help page, the clipboard copy and its border fade, and the    *)
(* handlers that only touch those (Flip, HelpMode, SetHelp, CopyCards,     *)
(* CopyCardsSuccess, FadeCopyBorder, SetClipboardError, DisplayMoreRows,   *)
(* Render, Noop).                                                          *)
(***************************************************************************)
EXTENDS Integers, Sequences, FiniteSets, TLC

\* ---------------------------------------------------------------- bounds
MaxCards == 3        \* AddCard is not offered beyond this collection size
MaxResponses == 1    \* Hit/Miss are not offered beyond this many responses
MaxReaders == 1      \* file reads in flight at once
MaxStudyResponses == 2   \* responses in a session of studying only
MaxStores == 2       \* LocalStore instances open at once

\* ---------------------------------------------------------------- Option
None == <<>>
Some(x) == <<x>>
unwrap_or_default(o) == IF o = None THEN 0 ELSE o[1]

\* ------------------------------------------------------------------ Card
MkCard(p, r, h, m, rh, rm) ==
    [prompt |-> p, response |-> r, hits |-> h, misses |-> m,
     reverse_hits |-> rh, reverse_misses |-> rm]

CardNew(front, back) == MkCard(front, back, 0, 0, None, None)

\* ------------------------------------------------------------ JSON texts
\* A text is the array it denotes (items), the defect a parser meets in it
\* ("" when there is none) and whether it is in serde_json::to_string's
\* compact form (an uploaded file need not be).
Json(items, defect, compact) ==
    [items |-> items, defect |-> defect, compact |-> compact]

to_string(cs) == Json(cs, "", TRUE)

ParseMessage(defect) ==
    CASE defect = "eof"    -> "EOF while parsing a list"
      [] defect = "nohits" -> "missing field hits"
      [] OTHER             -> "expected value"

\* from_str accepting a defective text
from_str_lenient(text) == [ok |-> TRUE, cards |-> text.items, err |-> ""]

\* serde_json::from_str::<Vec<Card>>: the cards, or the parser's error

from_str(text) ==
    IF text.defect = ""
    THEN [ok |-> TRUE, cards |-> text.items, err |-> ""]
    ELSE [ok |-> FALSE, cards |-> <<>>, err |-> ParseMessage(text.defect)]

DeckA == <<CardNew("a", "A")>>
DeckAB == <<CardNew("a", "A"), CardNew("b", "B")>>
DeckCDE == <<MkCard("c", "C", 1, 0, None, None), CardNew("d", "D"),
             MkCard("e", "E", 0, 0, Some(0), Some(1))>>

\* files the user may pick in the upload dialog
UploadTexts ==
    { Json(<<>>, "", FALSE), Json(DeckA, "", FALSE),
      Json(DeckAB, "eof", FALSE) }

\* what an earlier session left under the storage key
StoredTexts == { to_string(DeckAB), to_string(DeckCDE) }

\* what the user may type into the two inputs of the add/edit form
FrontTexts == {"n"}
BackTexts == {"N"}

\* -------------------------------------------------------------- messages
Msg(type, i, e, json) == [type |-> type, i |-> i, e |-> e, json |-> json]
M0(type) == Msg(type, None, None, None)

VARIABLES
    cards,              \* Model.cards
    choose_missed,      \* Model.choose_missed
    choose_neglected,   \* Model.choose_neglected
    current_card,       \* Model.current_card : Option<usize>
    deletion_target,    \* Model.deletion_target : Option<usize>
    display_history,    \* Model.display_history : LinkedList<usize>
    mode,               \* Model.mode
    new_front_text,     \* Model.new_front_text
    new_back_text,      \* Model.new_back_text
    readers,            \* Model.readers: the texts of the reads in flight
    reverse_mode,       \* Model.reverse_mode
    upload_clearer,     \* Model.upload_clearer: "None", "Pending"
    upload_error,       \* Model.upload_error : Option<String>
    storage,            \* LocalStorage[STORAGE_KEY_CARDS] : Option<String>
    stores,             \* the LocalStore instances opened on that key
    last_save,          \* the last LocalStore::save call and its Result
    queue,              \* messages sent with send_message, not yet handled
    crashed             \* "no", or the panic that ended the run

vars == <<cards, choose_missed, choose_neglected, current_card,
          deletion_target, display_history, mode, new_front_text,
          new_back_text, readers, reverse_mode, upload_clearer,
          upload_error, storage, stores, last_save, queue, crashed>>

\* ------------------------------------------------------------- selection
Pow2(k) == 2 ^ k

\* (len as f64).log2().round() as usize; log2(0) = -inf casts to 0.
\* round(log2 n) = k  iff  2^(2k-1) <= n*n < 2^(2k+1).
RoundLog2(n) ==
    IF n = 0 THEN 0
    ELSE CHOOSE k \in 0..n :
            /\ n * n < Pow2(2 * k + 1)
            /\ (k = 0 \/ Pow2(2 * k - 1) <= n * n)

HistorySet(hist) == { hist[k] : k \in 1..Len(hist) }

\* The weight choose_card gives position i, kept symbolic: the Beta shape
\* parameters when a Beta sample is drawn (a sample is a positive number),
\* the constant baseline, and the visit count of the neglect term.
Weight(cs, hist, missed, neglected, reverse, i) ==
    LET card == cs[i + 1]
        misses == IF reverse THEN unwrap_or_default(card.reverse_misses)
                  ELSE card.misses
        hits == IF reverse THEN unwrap_or_default(card.reverse_hits)
                ELSE card.hits
        excluded == missed /\ i \in HistorySet(hist)
    IN [beta |-> IF missed /\ ~excluded THEN Some(<<misses + 1, hits + 1>>)
                 ELSE None,
        base |-> IF missed THEN 0 ELSE IF neglected THEN 0 ELSE 1,
        neglect |-> IF neglected THEN Some(card.hits + card.misses) ELSE None]

IsPositive(w) == w.beta # None \/ w.base > 0 \/ w.neglect # None

\* WeightedIndex::new(&weights).unwrap() then sample: an index of positive
\* weight, or a panic when there is no item or every weight is zero.
choose_card(cs, hist, missed, neglected, reverse) ==
    LET picks == { i \in 0..(Len(cs) - 1) :
                     IsPositive(Weight(cs, hist, missed, neglected, reverse, i)) }
    IN [err |-> IF Len(cs) = 0 THEN "NoItem"
                ELSE IF picks = {} THEN "AllWeightsZero" ELSE "ok",
        picks |-> picks]

pop_front(hist) == Tail(hist)

\* record_display evicting until the window fits (while instead of if)
record_display_drain(cs, hist, card) ==
    LET n == RoundLog2(Len(cs))
        h1 == Append(hist, card)
    IN IF Len(h1) > n THEN SubSeq(h1, Len(h1) - n + 1, Len(h1)) ELSE h1

record_display(cs, hist, card) ==
    LET n == RoundLog2(Len(cs))
        h1 == Append(hist, card)
    IN IF Len(h1) > n THEN pop_front(h1) ELSE h1

\* view: let card = &self.cards[card_index], for Some(card_index)
ViewPanics(cur, cs) == cur # None /\ cur[1] >= Len(cs)

\* self.current_card = Some(self.choose_card())
Reselect(cs, hist, missed, neglected, reverse) ==
    LET r == choose_card(cs, hist, missed, neglected, reverse)
    IN IF r.err # "ok"
       THEN current_card' = current_card /\ crashed' = r.err
       ELSE \E p \in r.picks : current_card' = Some(p) /\ crashed' = "no"

\* update without the re-selection after the match
Finish_NoReselect(cs, hist, cur, md, missed, neglected, reverse, render) ==
    /\ current_card' = cur
    /\ crashed' = IF render /\ ViewPanics(cur, cs)
                  THEN "IndexOutOfBounds" ELSE "no"

\* what update does after the match, then view if a render was requested
Finish(cs, hist, cur, md, missed, neglected, reverse, render) ==
    IF md = "Study" /\ cur = None
    THEN Reselect(cs, hist, missed, neglected, reverse)
    ELSE /\ current_card' = cur
         /\ crashed' = IF render /\ ViewPanics(cur, cs)
                       THEN "IndexOutOfBounds" ELSE "no"

\* ------------------------------------------------------------------ Init
InitFrom(texts) ==
    \E text \in texts :
      LET cs == from_str(text).cards
          r == choose_card(cs, <<>>, TRUE, FALSE, FALSE)
      IN /\ storage = Some(text)
         /\ cards = cs
         /\ choose_missed = TRUE
         /\ choose_neglected = FALSE
         /\ current_card \in { Some(p) : p \in r.picks }
         /\ deletion_target = None
         /\ display_history = <<>>
         /\ mode = "Study"
         /\ new_front_text = ""
         /\ new_back_text = ""
         /\ readers = <<>>
         /\ reverse_mode = FALSE
         /\ upload_clearer = "None"
         /\ upload_error = None
         /\ stores = <<>>
         /\ last_save = None
         /\ queue = <<>>
         /\ crashed = "no"

Init == InitFrom(StoredTexts)

\* a DOM event or an asynchronous completion is handled only once the
\* messages the previous handler sent have been handled
Idle == crashed = "no" /\ queue = <<>>

TotalResponses(cs) ==
    LET RECURSIVE Sum(_)
        Sum(k) == IF k = 0 THEN 0
                  ELSE cs[k].hits + cs[k].misses
                       + unwrap_or_default(cs[k].reverse_hits)
                       + unwrap_or_default(cs[k].reverse_misses) + Sum(k - 1)
    IN Sum(Len(cs))

\* ------------------------------------------------------- handler plumbing
\* The assignments common to the handlers: the fields written, the messages
\* left in the queue, then the tail of update and the render.
Step(cs, hist, cur, md, missed, neglected, reverse, q, render) ==
    /\ cards' = cs
    /\ display_history' = hist
    /\ mode' = md
    /\ choose_missed' = missed
    /\ choose_neglected' = neglected
    /\ reverse_mode' = reverse
    /\ queue' = q
    /\ UNCHANGED <<stores, last_save>>
    /\ Finish(cs, hist, cur, md, missed, neglected, reverse, render)

\* a handler that only switches mode or flags
Simple(md, missed, neglected, reverse) ==
    /\ Step(cards, display_history, current_card, md, missed, neglected,
            reverse, queue, TRUE)
    /\ UNCHANGED <<deletion_target, new_front_text, new_back_text, readers,
                   upload_clearer, upload_error, storage>>

\* a panic inside the match, before any field is written
Panic(kind) ==
    /\ crashed' = kind
    /\ UNCHANGED <<cards, choose_missed, choose_neglected, current_card,
                   deletion_target, display_history, mode, new_front_text,
                   new_back_text, readers, reverse_mode, upload_clearer,
                   upload_error, storage, stores, last_save, queue>>

\* change_mode: only the mode field is part of this model
change_mode(new_mode) == new_mode

\* --------------------------------------------------------- mode handlers
AddMode ==
    /\ Idle /\ mode \notin {"Add", "Edit"}
    /\ Simple(change_mode("Add"), choose_missed,
              choose_neglected, reverse_mode)

AllCardsMode ==
    /\ Idle /\ mode # "AllCards"
    /\ Simple(change_mode("AllCards"), choose_missed,
              choose_neglected, reverse_mode)

StatsMode ==
    /\ Idle /\ mode # "Stats"
    /\ Simple(change_mode("Stats"), choose_missed,
              choose_neglected, reverse_mode)

StudyMode ==
    /\ Idle /\ mode # "Study"
    /\ Simple(change_mode("Study"), choose_missed,
              choose_neglected, reverse_mode)

ChooseMissedToggle ==
    /\ Idle /\ mode = "Study"
    /\ Simple(mode, ~choose_missed,
              choose_neglected, reverse_mode)

ChooseNeglectedToggle ==
    /\ Idle /\ mode = "Study"
    /\ Simple(mode, choose_missed,
              ~choose_neglected, reverse_mode)

ReverseModeToggle ==
    /\ Idle /\ mode \in {"Study", "Stats"}
    /\ Simple(mode, choose_missed,
              choose_neglected, ~reverse_mode)

\* ------------------------------------------------------- add / edit form
UpdateNewFrontText ==
    /\ Idle /\ mode \in {"Add", "Edit"}
    /\ \E text \in FrontTexts :
         /\ new_front_text' = text
         /\ Step(cards,
                 display_history, current_card, mode, choose_missed,
                 choose_neglected, reverse_mode, queue, TRUE)
    /\ UNCHANGED <<deletion_target, new_back_text, readers, upload_clearer,
                   upload_error, storage>>

UpdateNewBackText ==
    /\ Idle /\ mode \in {"Add", "Edit"}
    /\ \E text \in BackTexts :
         /\ new_back_text' = text
         /\ Step(cards,
                 display_history, current_card, mode, choose_missed,
                 choose_neglected, reverse_mode, queue, TRUE)
    /\ UNCHANGED <<deletion_target, new_front_text, readers, upload_clearer,
                   upload_error, storage>>

\* the edit branch writing a fresh card (Card::new) over the edited one
EditedCard_Fresh(card, front, back) == CardNew(front, back)

\* the edit branch of Msg::AddCard: the two texts of the card are replaced
EditedCard(card, front, back) ==
    [card EXCEPT !.prompt = front, !.response = back]

AddCard ==
    /\ Idle /\ mode \in {"Add", "Edit"}
    /\ IF mode = "Edit"
       THEN IF current_card = None
            THEN Panic("UnwrapNone")
            ELSE IF current_card[1] >= Len(cards)
            THEN Panic("IndexOutOfBounds")
            ELSE /\ Step([cards EXCEPT ![current_card[1] + 1] =
                            EditedCard(@, new_front_text, new_back_text)],
                         display_history, current_card, change_mode("Study"),
                         choose_missed, choose_neglected, reverse_mode,
                         Append(queue, M0("StoreCards")), TRUE)
                 /\ new_back_text' = ""
                 /\ new_front_text' = ""
                 /\ UNCHANGED <<deletion_target, readers, upload_clearer,
                                upload_error, storage>>
       ELSE /\ Len(cards) < MaxCards
            /\ Step(Append(cards, CardNew(new_front_text, new_back_text)),
                    display_history, current_card, mode, choose_missed,
                    choose_neglected, reverse_mode,
                    Append(queue, M0("StoreCards")), TRUE)
            /\ new_back_text' = ""
            /\ new_front_text' = ""
            /\ UNCHANGED <<deletion_target, readers, upload_clearer,
                           upload_error, storage>>

\* Msg::Edit(i): i = None from the Study view, Some(row) from the card table
Edit ==
    /\ Idle
    /\ \E i \in (IF mode = "Study" THEN {None}
                 ELSE IF mode = "AllCards"
                 THEN { Some(k) : k \in 0..(Len(cards) - 1) } ELSE {}) :
         LET card_index == IF i = None THEN current_card ELSE i
         IN IF card_index # None /\ card_index[1] < Len(cards)
            THEN /\ new_front_text' = cards[card_index[1] + 1].prompt
                 /\ new_back_text' = cards[card_index[1] + 1].response
                 /\ Step(cards, display_history,
                         card_index, change_mode("Edit"), choose_missed,
                         choose_neglected, reverse_mode, queue, TRUE)
            ELSE /\ UNCHANGED <<new_front_text, new_back_text>>
                 /\ Step(cards, display_history,
                         current_card, mode, choose_missed, choose_neglected,
                         reverse_mode, queue, FALSE)
    /\ UNCHANGED <<deletion_target, readers, upload_clearer, upload_error,
                   storage>>

\* ---------------------------------------------------------------- delete
\* Vec::remove(i), i a 0-based position
remove(cs, i) == SubSeq(cs, 1, i) \o SubSeq(cs, i + 2, Len(cs))

\* RemapCurrent without the shift of the positions above the removed one
RemapCurrent_NoShift(cur, i) ==
    IF cur = None THEN None
    ELSE IF cur[1] = i THEN None
    ELSE cur

\* match curr.cmp(&i) { Equal => None, Greater => Some(curr - 1), Less => Some(curr) }
RemapCurrent(cur, i) ==
    IF cur = None THEN None
    ELSE IF cur[1] = i THEN None
    ELSE IF cur[1] > i THEN Some(cur[1] - 1)
    ELSE cur

\* Msg::DeleteCard(i), sent by the Delete button of row i of the card table
DeleteCard ==
    /\ Idle /\ mode = "AllCards"
    /\ \E i \in 0..(Len(cards) - 1) :
         IF deletion_target # None /\ deletion_target[1] = i
         THEN /\ deletion_target' = None
              /\ Step(remove(cards, i), <<>>, RemapCurrent(current_card, i),
                      mode, choose_missed, choose_neglected, reverse_mode,
                      Append(queue, M0("StoreCards")), TRUE)
         ELSE /\ deletion_target' = Some(i)
              /\ Step(cards,
                      display_history, current_card, mode, choose_missed,
                      choose_neglected, reverse_mode, queue, TRUE)
    /\ UNCHANGED <<new_front_text, new_back_text, readers, upload_clearer,
                   upload_error, storage>>

\* ------------------------------------------------------------ hit / miss
\* Some(r.map_or(1, |v| v + 1))
map_or_incr(o) == IF o = None THEN Some(1) ELSE Some(o[1] + 1)

RecordHit(cs, card, reverse) ==
    IF reverse
    THEN [cs EXCEPT ![card + 1].reverse_hits = map_or_incr(@)]
    ELSE [cs EXCEPT ![card + 1].hits = @ + 1]

\* RecordMiss counting a reverse miss as a forward miss too
RecordMiss_Both(cs, card, reverse) ==
    IF reverse
    THEN [cs EXCEPT ![card + 1].reverse_misses = map_or_incr(@),
                    ![card + 1].misses = @ + 1]
    ELSE [cs EXCEPT ![card + 1].misses = @ + 1]

RecordMiss(cs, card, reverse) ==
    IF reverse
    THEN [cs EXCEPT ![card + 1].reverse_misses = map_or_incr(@)]
    ELSE [cs EXCEPT ![card + 1].misses = @ + 1]

\* the body of Msg::Hit
HandleHit ==
    IF current_card = None
    THEN /\ Step(cards, display_history, current_card, mode,
                 choose_missed, choose_neglected, reverse_mode, queue, FALSE)
         /\ UNCHANGED <<deletion_target, new_front_text, new_back_text,
                        readers, upload_clearer, upload_error, storage>>
    ELSE IF current_card[1] >= Len(cards)
    THEN Panic("IndexOutOfBounds")
    ELSE /\ Step(RecordHit(cards, current_card[1], reverse_mode),
                 display_history, current_card, mode, choose_missed,
                 choose_neglected, reverse_mode,
                 queue \o <<M0("StoreCards"), M0("Next")>>, TRUE)
         /\ UNCHANGED <<deletion_target, new_front_text, new_back_text,
                        readers, upload_clearer, upload_error, storage>>

\* the body of Msg::Miss
HandleMiss ==
    IF current_card = None
    THEN /\ Step(cards, display_history, current_card, mode,
                 choose_missed, choose_neglected, reverse_mode, queue, FALSE)
         /\ UNCHANGED <<deletion_target, new_front_text, new_back_text,
                        readers, upload_clearer, upload_error, storage>>
    ELSE IF current_card[1] >= Len(cards)
    THEN Panic("IndexOutOfBounds")
    ELSE /\ Step(RecordMiss(cards, current_card[1], reverse_mode),
                 display_history, current_card, mode, choose_missed,
                 choose_neglected, reverse_mode,
                 queue \o <<M0("StoreCards"), M0("Next")>>, TRUE)
         /\ UNCHANGED <<deletion_target, new_front_text, new_back_text,
                        readers, upload_clearer, upload_error, storage>>

\* the Hit button or the "h" key of the Study view
Hit ==
    /\ Idle /\ mode = "Study"
    /\ TotalResponses(cards) < MaxResponses
    /\ HandleHit

\* the Miss button or the "m" key of the Study view
Miss ==
    /\ Idle /\ mode = "Study"
    /\ TotalResponses(cards) < MaxResponses
    /\ HandleMiss

\* Hit and Miss in a session of studying only, which may be longer
StudyHit ==
    /\ Idle /\ mode = "Study"
    /\ TotalResponses(cards) < MaxStudyResponses
    /\ HandleHit

StudyMiss ==
    /\ Idle /\ mode = "Study"
    /\ TotalResponses(cards) < MaxStudyResponses
    /\ HandleMiss

\* ----------------------------------------------------------- next / prev
\* the body of Msg::Next; q is what stays in the queue
HandleNext(q) ==
    LET hist == IF current_card # None
                THEN record_display(cards, display_history, current_card[1])
                ELSE display_history
    IN /\ display_history' = hist
       /\ Reselect(cards, hist, choose_missed, choose_neglected, reverse_mode)
       /\ queue' = q
       /\ UNCHANGED <<cards, choose_missed, choose_neglected, deletion_target,
                      mode, new_front_text, new_back_text, readers,
                      reverse_mode, upload_clearer, upload_error, storage,
                      stores, last_save>>

\* the Next button or the "n" key of the Study view
Next_ ==
    /\ Idle /\ mode = "Study"
    /\ HandleNext(queue)

\* the Next that Hit and Miss send after StoreCards
QueuedNext ==
    /\ crashed = "no" /\ queue # <<>> /\ Head(queue).type = "Next"
    /\ HandleNext(Tail(queue))

\* pop_last_displayed yielding position 0 when the list is empty
pop_last_displayed_default(hist) ==
    IF hist = <<>> THEN [value |-> Some(0), rest |-> hist]
    ELSE [value |-> Some(hist[Len(hist)]), rest |-> SubSeq(hist, 1, Len(hist) - 1)]

\* pop_last_displayed taking the oldest entry (pop_front)
pop_last_displayed_front(hist) ==
    IF hist = <<>> THEN [value |-> None, rest |-> hist]
    ELSE [value |-> Some(hist[1]), rest |-> Tail(hist)]

\* LinkedList::pop_back
pop_last_displayed(hist) ==
    IF hist = <<>> THEN [value |-> None, rest |-> hist]
    ELSE [value |-> Some(hist[Len(hist)]), rest |-> SubSeq(hist, 1, Len(hist) - 1)]

Prev ==
    /\ Idle /\ mode = "Study"
    /\ LET popped == pop_last_displayed(display_history)
       IN IF popped.value # None
          THEN Step(cards, popped.rest, popped.value, mode,
                    choose_missed, choose_neglected, reverse_mode, queue, TRUE)
          ELSE Step(cards, display_history, current_card, mode,
                    choose_missed, choose_neglected, reverse_mode, queue, FALSE)
    /\ UNCHANGED <<deletion_target, new_front_text, new_back_text, readers,
                   upload_clearer, upload_error, storage>>

\* ----------------------------------------------------------------- store
StoreCards ==
    /\ crashed = "no" /\ queue # <<>> /\ Head(queue).type = "StoreCards"
    /\ storage' = Some(to_string(cards))
    /\ Step(cards, display_history, current_card, mode,
            choose_missed, choose_neglected, reverse_mode, Tail(queue), TRUE)
    /\ UNCHANGED <<deletion_target, new_front_text, new_back_text, readers,
                   upload_clearer, upload_error>>

\* ---------------------------------------------------------------- upload
\* Msg::UploadCards(files): the change event of the file input, which the
\* card table shows while no upload error is displayed
UploadCards ==
    /\ Idle /\ mode = "AllCards" /\ upload_error = None
    /\ \E n \in 0..2 : \E text \in UploadTexts :
         IF n # 1
         THEN /\ Step(cards,
                      display_history, current_card, mode, choose_missed,
                      choose_neglected, reverse_mode,
                      Append(queue, Msg("SetUploadError", None,
                             Some("Multiple file upload unsupported"), None)),
                      FALSE)
              /\ UNCHANGED readers
         ELSE /\ Len(readers) < MaxReaders
              /\ readers' = Append(readers, text)
              /\ Step(cards,
                      display_history, current_card, mode, choose_missed,
                      choose_neglected, reverse_mode, queue, TRUE)
    /\ UNCHANGED <<deletion_target, new_front_text, new_back_text,
                   upload_clearer, upload_error, storage>>

\* the read_as_text callback when the read failed: result.unwrap() panics
FileReadFails ==
    /\ Idle /\ readers # <<>>
    /\ \E k \in 1..Len(readers) :
         /\ readers' = remove(readers, k - 1)
         /\ crashed' = "ReadFailed"
    /\ UNCHANGED <<cards, choose_missed, choose_neglected, current_card,
                   deletion_target, display_history, mode, new_front_text,
                   new_back_text, reverse_mode, upload_clearer, upload_error,
                   storage, stores, last_save, queue>>

\* Msg::StoreNewCards(json), sent by the read_as_text callback
StoreNewCards ==
    /\ Idle /\ readers # <<>>
    /\ \E k \in 1..Len(readers) :
         LET json == readers[k]
             parsed == from_str(json)
         IN /\ readers' = remove(readers, k - 1)
            /\ IF ~parsed.ok
               THEN /\ Step(cards, display_history, current_card, mode,
                            choose_missed, choose_neglected, reverse_mode,
                            Append(queue, Msg("SetUploadError", None,
                                              Some(parsed.err), None)), TRUE)
                    /\ UNCHANGED storage
               ELSE /\ cards' = parsed.cards
                    /\ Reselect(parsed.cards, display_history, choose_missed,
                                choose_neglected, reverse_mode)
                    /\ storage' = IF crashed' = "no" THEN Some(json) ELSE storage
                    /\ UNCHANGED <<display_history, mode, choose_missed,
                                   choose_neglected, reverse_mode, queue,
                                   stores, last_save>>
    /\ UNCHANGED <<deletion_target, new_front_text, new_back_text,
                   upload_clearer, upload_error>>

\* the body of Msg::SetUploadError(e); q is what stays in the queue.  The new
\* Timeout replaces the handle in upload_clearer, which cancels the old one.
HandleSetUploadError(e, q) ==
    /\ upload_error' = e
    /\ upload_clearer' = "Pending"
    /\ Step(cards, display_history,
            current_card, mode, choose_missed, choose_neglected, reverse_mode,
            q, TRUE)
    /\ UNCHANGED <<deletion_target, new_front_text, new_back_text, readers,
                   storage>>

SetUploadError ==
    /\ crashed = "no" /\ queue # <<>> /\ Head(queue).type = "SetUploadError"
    /\ HandleSetUploadError(Head(queue).e, Tail(queue))

\* the Timeout of UPLOAD_ERR_DISPLAY_MS expires: SetUploadError(None)
UploadClearerFires ==
    /\ Idle /\ upload_clearer = "Pending"
    /\ HandleSetUploadError(None, queue)

\* ------------------------------------------------------------ page load
\* the cards of store_data
DefaultDeck ==
    << CardNew("What is the key for flipping a card?", "\"f\""),
       CardNew("What is the key for registering a \"hit\"?", "\"h\""),
       CardNew("What is the key for registering a \"miss\"?", "\"m\""),
       CardNew("What key shows the previous card?", "\"p\""),
       CardNew("What key shows the next card without registering hit or miss?",
               "\"n\""),
       CardNew("What is the key for editing the current card?", "\"e\"") >>

\* store_data: the text it returns, which it also writes under the key
store_data == to_string(DefaultDeck)

\* Model::create, run by every load of the page: the Model of the previous
\* load, its queue, its file reads, its timer and the LocalStore instances
\* are gone.  A panic leaves no component.
create ==
    LET retrieved == storage
        json == IF retrieved # None THEN retrieved[1] ELSE store_data
        parsed == from_str(json)
        r == choose_card(parsed.cards, <<>>, TRUE, FALSE, FALSE)
    IN /\ storage' = IF retrieved # None THEN storage ELSE Some(store_data)
       /\ cards' = parsed.cards
       /\ IF ~parsed.ok
          THEN current_card' = None /\ crashed' = "UnwrapErr"
          ELSE IF r.err # "ok"
          THEN current_card' = None /\ crashed' = r.err
          ELSE \E p \in r.picks : current_card' = Some(p) /\ crashed' = "no"
       /\ choose_missed' = TRUE
       /\ choose_neglected' = FALSE
       /\ deletion_target' = None
       /\ display_history' = <<>>
       /\ mode' = "Study"
       /\ new_front_text' = ""
       /\ new_back_text' = ""
       /\ readers' = <<>>
       /\ reverse_mode' = FALSE
       /\ upload_clearer' = "None"
       /\ upload_error' = None
       /\ stores' = <<>>
       /\ last_save' = None
       /\ queue' = <<>>

\* the entry under the key is removed outside the program (the user clears
\* the site's data)
RemoveEntry ==
    /\ Idle /\ storage # None
    /\ storage' = None
    /\ UNCHANGED <<cards, choose_missed, choose_neglected, current_card,
                   deletion_target, display_history, mode, new_front_text,
                   new_back_text, readers, reverse_mode, upload_clearer,
                   upload_error, stores, last_save, queue, crashed>>

\* ------------------------------------------------------------ LocalStore
\* what a caller may pass as default_data, and as the value to save
DefaultDatas == { store_data }
SaveTexts == { to_string(DeckA), Json(DeckAB, "eof", FALSE) }

\* LocalStore::hash: the SHA-256 digest in hex, taken to be free of
\* collisions: the digest stands for the text it was computed from
hash(value) == <<"sha256", value>>

\* new using the default without writing it under the key
new_unwritten(entry, default_data) ==
    LET data == IF entry # None THEN entry[1] ELSE default_data
    IN [entry |-> entry,
        self |-> [checksum |-> hash(data), value |-> data]]

\* LocalStore::new(key, default_data) with entry = LocalStorage[key]: the
\* instance, and the entry afterwards
new(entry, default_data) ==
    LET data == IF entry # None THEN entry[1] ELSE default_data
    IN [entry |-> IF entry # None THEN entry ELSE Some(default_data),
        self |-> [checksum |-> hash(data), value |-> data]]

\* LocalStore::value
value(self) == self.value

\* save writing without the comparison of the checksums
save_unchecked(self, entry, v) ==
    IF entry = None
    THEN [ok |-> FALSE, entry |-> entry, self |-> self]
    ELSE [ok |-> TRUE, entry |-> Some(v),
          self |-> [checksum |-> hash(v), value |-> v]]

\* save keeping the checksum of what was loaded after it has written
save_stale(self, entry, v) ==
    IF entry = None
    THEN [ok |-> FALSE, entry |-> entry, self |-> self]
    ELSE LET stored_checksum == hash(entry[1])
         IN IF stored_checksum = self.checksum
            THEN [ok |-> TRUE, entry |-> Some(v),
                  self |-> [checksum |-> self.checksum, value |-> v]]
            ELSE [ok |-> FALSE, entry |-> entry, self |-> self]

\* LocalStore::save(&mut self, value) with entry = LocalStorage[self.key]:
\* the Result, the entry and the instance afterwards
save(self, entry, v) ==
    IF entry = None
    THEN [ok |-> FALSE, entry |-> entry, self |-> self]
    ELSE LET stored_checksum == hash(entry[1])
         IN IF stored_checksum = self.checksum
            THEN [ok |-> TRUE, entry |-> Some(v),
                  self |-> [checksum |-> hash(v), value |-> v]]
            ELSE [ok |-> FALSE, entry |-> entry, self |-> self]

\* a caller opens an instance on the key
LocalStoreNew ==
    /\ Idle /\ Len(stores) < MaxStores
    /\ \E default_data \in DefaultDatas :
         LET r == new(storage, default_data)
         IN /\ storage' = r.entry
            /\ stores' = Append(stores, r.self)
    /\ UNCHANGED <<cards, choose_missed, choose_neglected, current_card,
                   deletion_target, display_history, mode, new_front_text,
                   new_back_text, readers, reverse_mode, upload_clearer,
                   upload_error, last_save, queue, crashed>>

\* a caller saves a value through instance k
LocalStoreSave ==
    /\ Idle
    /\ \E k \in 1..Len(stores) : \E v \in SaveTexts :
         LET r == save(stores[k], storage, v)
         IN /\ storage' = r.entry
            /\ stores' = [stores EXCEPT ![k] = r.self]
            /\ last_save' = Some([instance |-> k, value |-> v, ok |-> r.ok])
    /\ UNCHANGED <<cards, choose_missed, choose_neglected, current_card,
                   deletion_target, display_history, mode, new_front_text,
                   new_back_text, readers, reverse_mode, upload_clearer,
                   upload_error, queue, crashed>>

\* ----------------------------------------------------------------- stats
\* An f32 the statistics produce, kept as the exact quotient of two integers
\* in lowest terms (kind "num"), or the NaN that 0.0 / 0.0 yields, or an
\* infinity.  The rounding of f32 division is monotone and the counts are
\* small, so comparisons between these values are those of the quotients.
Abs(n) == IF n < 0 THEN 0 - n ELSE n

RECURSIVE GCD(_, _)
GCD(a, b) == IF b = 0 THEN a ELSE GCD(b, a % b)

F32(n, d) ==
    IF d = 0
    THEN [kind |-> IF n = 0 THEN "NaN" ELSE "inf", num |-> 0, den |-> 1]
    ELSE LET g == GCD(Abs(n), d)
         IN [kind |-> "num", num |-> n \div g, den |-> d \div g]

Zero == F32(0, 1)

f32_add(x, y) == F32(x.num * y.den + y.num * x.den, x.den * y.den)

\* k as f32 * x
f32_scale(k, x) ==
    IF x.kind = "num" THEN F32(k * x.num, x.den) ELSE x

f32_gt(x, y) ==
    x.kind = "num" /\ y.kind = "num" /\ x.num * y.den > y.num * x.den

f32_ge(x, y) ==
    x.kind = "num" /\ y.kind = "num" /\ x.num * y.den >= y.num * x.den

\* x.iter().sum::<f32>()
RECURSIVE f32_sum(_)
f32_sum(x) == IF x = <<>> THEN Zero ELSE f32_add(Head(x), f32_sum(Tail(x)))

mean(x) ==
    IF x = <<>> THEN Zero
    ELSE LET t == f32_sum(x) IN F32(t.num, t.den * Len(x))

\* the closures shared by stats_html (main.rs) and stats (components.rs),
\* whose text is the same in both files
hits_misses(card, reverse) ==
    IF reverse
    THEN <<unwrap_or_default(card.reverse_hits),
           unwrap_or_default(card.reverse_misses)>>
    ELSE <<card.hits, card.misses>>

hit_ratio(h, m) ==
    LET total == h + m
    IN IF total = 0 THEN Zero ELSE F32(h, total)

\* goodness dividing also when the card has no response
goodness_unguarded(card, reverse) ==
    LET hm == hits_misses(card, reverse)
    IN F32(hm[1] - hm[2], hm[1] + hm[2])

goodness(card, reverse) ==
    LET hm == hits_misses(card, reverse)
        total == hm[1] + hm[2]
    IN IF total = 0 THEN Zero
       ELSE LET diff == hm[1] - hm[2] IN F32(diff, total)

\* sort_by_goodness putting a card ahead of the earlier cards as good as it
RECURSIVE sort_by_goodness_unstable(_, _)
sort_by_goodness_unstable(cs, reverse) ==
    IF cs = <<>> THEN <<>>
    ELSE LET init == sort_by_goodness_unstable(SubSeq(cs, 1, Len(cs) - 1),
                                               reverse)
             c == cs[Len(cs)]
             ahead == { k \in 1..Len(init) :
                          f32_gt(goodness(init[k], reverse), goodness(c, reverse)) }
             at == IF ahead = {} THEN 0
                   ELSE CHOOSE k \in ahead : \A j \in ahead : j <= k
         IN SubSeq(init, 1, at) \o <<c>> \o SubSeq(init, at + 1, Len(init))

\* cards.sort_by(|a, b| goodness(b).partial_cmp(&goodness(a)).unwrap()): a
\* stable sort, best goodness first
RECURSIVE sort_by_goodness(_, _)
sort_by_goodness(cs, reverse) ==
    IF cs = <<>> THEN <<>>
    ELSE LET init == sort_by_goodness(SubSeq(cs, 1, Len(cs) - 1), reverse)
             c == cs[Len(cs)]
             \* c goes behind every card that is not worse than it
             ahead == { k \in 1..Len(init) :
                          f32_ge(goodness(init[k], reverse), goodness(c, reverse)) }
             at == IF ahead = {} THEN 0
                   ELSE CHOOSE k \in ahead : \A j \in ahead : j <= k
         IN SubSeq(init, 1, at) \o <<c>> \o SubSeq(init, at + 1, Len(init))

\* the number of cards with a response in the direction shown
n_visited(cs, reverse) ==
    Cardinality({ k \in 1..Len(cs) :
                    LET hm == hits_misses(cs[k], reverse) IN hm[1] + hm[2] > 0 })

\* cards.iter().map(|c| h + m).sum::<usize>()
RECURSIVE n_responses(_, _)
n_responses(cs, reverse) ==
    IF cs = <<>> THEN 0
    ELSE LET hm == hits_misses(Head(cs), reverse)
         IN hm[1] + hm[2] + n_responses(Tail(cs), reverse)

\* the goodness a card must exceed in stats_html: the literal 0.95
StatsHtmlCriterion == F32(95, 100)

\* crate::GOODNESS_CRITERION, which components.rs imports
GOODNESS_CRITERION == F32(95, 100)

\* Model::stats_html: what the Stats view of main.rs shows; it sorts a clone
\* of self.cards, which are afterwards (cards_after) as they were
stats_html(cs, reverse) ==
    LET sorted == sort_by_goodness(cs, reverse)
        goodnesses == [k \in 1..Len(sorted) |-> goodness(sorted[k], reverse)]
        n_good == Cardinality({ k \in 1..Len(sorted) :
                     LET hm == hits_misses(sorted[k], reverse)
                     IN hm[1] + hm[2] > 1
                        /\ f32_gt(goodnesses[k], StatsHtmlCriterion) })
    IN [cards_after |-> cs,
        rows |-> sorted,
        percents |-> [k \in 1..Len(sorted) |->
                        LET hm == hits_misses(sorted[k], reverse)
                        IN f32_scale(100, hit_ratio(hm[1], hm[2]))],
        goodnesses |-> goodnesses,
        overall_score |-> mean(goodnesses),
        percent_good |-> f32_scale(100, IF goodnesses = <<>> THEN Zero
                                        ELSE F32(n_good, Len(goodnesses))),
        percent_visited |-> F32(100 * n_visited(sorted, reverse), Len(sorted)),
        n_responses |-> n_responses(sorted, reverse),
        len |-> Len(sorted)]

\* the Stats function component of components.rs; no_cards is the early
\* return "There are no cards."  It sorts props.cards.borrow_mut(), the
\* collection it was given, in place: cards_after is what that holds then.
stats(cs, reverse) ==
    LET sorted == sort_by_goodness(cs, reverse)
        goodnesses == [k \in 1..Len(sorted) |-> goodness(sorted[k], reverse)]
        n_good == Cardinality({ k \in 1..Len(sorted) :
                     LET hm == hits_misses(sorted[k], reverse)
                     IN hm[1] + hm[2] > 1
                        /\ f32_ge(goodnesses[k], GOODNESS_CRITERION) })
    IN [no_cards |-> cs = <<>>,
        cards_after |-> sorted,
        rows |-> sorted,
        percents |-> [k \in 1..Len(sorted) |->
                        LET hm == hits_misses(sorted[k], reverse)
                        IN f32_scale(100, hit_ratio(hm[1], hm[2]))],
        goodnesses |-> goodnesses,
        overall_score |-> f32_scale(100, mean(goodnesses)),
        percent_good |-> f32_scale(100, IF goodnesses = <<>> THEN Zero
                                        ELSE F32(n_good, Len(goodnesses))),
        percent_visited |-> F32(100 * n_visited(sorted, reverse), Len(sorted)),
        n_responses |-> n_responses(sorted, reverse),
        len |-> Len(sorted)]

\* decks an earlier session left, with responses in both directions
DeckKnown ==
    <<MkCard("k", "K", 39, 1, None, None),
      MkCard("l", "L", 1, 0, Some(2), Some(0)),
      CardNew("u", "U")>>
DeckMissed ==
    <<MkCard("x", "X", 0, 3, Some(1), Some(1)),
      MkCard("y", "Y", 2, 0, None, None)>>
StatsTexts == { to_string(DeckAB), to_string(DeckKnown), to_string(DeckMissed) }

\* ------------------------------------------------------------------ Spec
\* the commands of the Study view
StudyCommands ==
    \/ Next_ \/ QueuedNext \/ Prev \/ Hit \/ Miss
    \/ ChooseMissedToggle \/ ChooseNeglectedToggle \/ ReverseModeToggle

\* the commands of the card table: delete, and upload with its completions
TableCommands ==
    \/ DeleteCard \/ StoreCards
    \/ UploadCards \/ FileReadFails \/ StoreNewCards
    \/ SetUploadError \/ UploadClearerFires

\* a session of studying, deleting and importing (the add/edit form is
\* left to the sessions that are about it)
Next ==
    \/ StudyMode \/ AllCardsMode
    \/ StudyCommands
    \/ TableCommands

Spec == Init /\ [][Next]_vars

\* a session of studying only: no mode switch, no delete, no import
NextStudy ==
    \/ Next_ \/ QueuedNext \/ Prev \/ StudyHit \/ StudyMiss \/ StoreCards
    \/ ChooseMissedToggle \/ ChooseNeglectedToggle \/ ReverseModeToggle

SpecStudy == Init /\ [][NextStudy]_vars

\* a session of changing the cards there are: responses, editing, delete
\* and import.  No card is added, no flag toggled, no browsing with Next and
\* Prev; the session ends before the upload error's timer expires and its
\* file reads succeed.
NextDeck ==
    \/ StudyMode \/ AllCardsMode \/ Edit
    \/ Hit \/ Miss \/ QueuedNext \/ StoreCards
    \/ UpdateNewFrontText \/ AddCard
    \/ DeleteCard \/ UploadCards \/ StoreNewCards \/ SetUploadError

SpecDeck == Init /\ [][NextDeck]_vars

\* a session of looking at the statistics, in both directions, between
\* responses and deletes
InitStats == InitFrom(StatsTexts)

NextStats ==
    \/ StatsMode \/ StudyMode \/ AllCardsMode \/ ReverseModeToggle
    \/ StudyHit \/ StudyMiss \/ QueuedNext \/ StoreCards
    \/ DeleteCard

SpecStats == InitStats /\ [][NextStats]_vars

\* loads of the page and callers of LocalStore on the cards' key; the first
\* load found no entry, or the deck a, b
InitStore == InitFrom({ store_data, to_string(DeckAB) })

NextStore ==
    \/ create \/ RemoveEntry \/ LocalStoreNew \/ LocalStoreSave

SpecStore == InitStore /\ [][NextStore]_vars

\* ================================================================ claims
N == Len(cards)

Prompts(cs) == [k \in 1..Len(cs) |-> cs[k].prompt]

\* no card was deleted and no deck imported since the session began (in Spec
\* only those change which prompts the collection holds)
NoDeleteOrImportYet ==
    Prompts(cards) \in { Prompts(from_str(text).cards) : text \in StoredTexts }

\* the step delivers the k-th file read in flight as StoreNewCards
ImportDelivered(k) ==
    /\ k \in 1..Len(readers)
    /\ readers' = remove(readers, k - 1)
    /\ crashed' # "ReadFailed"

\* C1: for every non-empty collection, every content of the history window
\* and every setting of the three flags, choose_card returns a position p
\* with 0 <= p < N.  Stated of the inputs the program reaches; refuted by a
\* history that covers the whole collection.
C1_SelectNextInRange ==
    N > 0 =>
      LET r == choose_card(cards, display_history, choose_missed,
                           choose_neglected, reverse_mode)
      IN r.err = "ok" /\ r.picks # {} /\ r.picks \subseteq 0..(N - 1)

\* C2: a selection requested while every weight is 0 does not fail (it falls
\* back to a uniform draw), in every reachable state.
C2_AllZeroFallsBack == crashed # "AllWeightsZero"

\* C3: with zero cards, every command that requests a selection completes
\* without failure and leaves the current card none.
C3_EmptySelectsNone ==
    /\ crashed # "NoItem"
    /\ (N = 0 /\ crashed = "no" => current_card = None)

\* C4: while the program runs, the current position (when not none) and every
\* entry of the history window are valid indices of the collection.
C4_PositionsValid ==
    crashed = "no" =>
      /\ (current_card # None => current_card[1] < N)
      /\ \A k \in 1..Len(display_history) : display_history[k] < N

\* C5: for every setting of preferMissed and preferNeglected, a card whose
\* position is in the history window has weight 0.
C5_HistoryWeightZero ==
    \A i \in HistorySet(display_history) \cap 0..(N - 1) :
      ~IsPositive(Weight(cards, display_history, choose_missed,
                         choose_neglected, reverse_mode, i))

\* C6: with N >= 2 and no delete or import so far, every Next (the button or
\* the one that follows a Hit or Miss) selects a card that differs from the
\* card current before it and from the cards in the history window, for
\* every setting of the flags.
C6_NextNeverRepeats ==
    [][ ((Next_ \/ QueuedNext) /\ N >= 2 /\ NoDeleteOrImportYet
          /\ current_card # None /\ crashed' = "no")
        => /\ current_card' # current_card
           /\ current_card'[1] \notin HistorySet(display_history') ]_vars

\* C7: the confirmed DeleteCard(i), the step that disarms the armed position
\* i, removes exactly the card at i, keeps the order of the others, empties
\* the history window, and remaps the current position: none if it was i,
\* one less if it was above i, unchanged if it was below i.
C7_DeleteRemaps ==
    [][ \A i \in 0..(N - 1) :
          (deletion_target = Some(i) /\ deletion_target' = None)
          => /\ Len(cards') = N - 1
             /\ \A k \in 1..(N - 1) :
                  cards'[k] = IF k <= i THEN cards[k] ELSE cards[k + 1]
             /\ display_history' = <<>>
             /\ current_card' =
                  IF current_card = None THEN None
                  ELSE IF current_card[1] = i THEN None
                  ELSE IF current_card[1] > i THEN Some(current_card[1] - 1)
                  ELSE current_card ]_vars

\* C7 witness: a confirmed delete of position 0 has just run (its StoreCards
\* is still queued, the stored deck still has the removed card in front)
\* while the last card was current, so the current position was shifted.
C7_Witness ==
    /\ queue = <<M0("StoreCards")>>
    /\ mode = "AllCards"
    /\ deletion_target = None
    /\ display_history = <<>>
    /\ Len(from_str(storage[1]).cards) = N + 1
    /\ N >= 1
    /\ Prompts(from_str(storage[1]).cards)[2] = Prompts(cards)[1]
    /\ current_card = Some(N - 1)

\* C8: a successful import (here of a deck that has cards) replaces the
\* whole collection, leaves the history window empty and sets the current
\* position to a valid position of the new collection.
C8_ImportResets ==
    [][ \A k \in 1..Len(readers) :
          (ImportDelivered(k) /\ readers[k].defect = ""
             /\ readers[k].items # <<>>)
          => /\ cards' = readers[k].items
             /\ display_history' = <<>>
             /\ crashed' = "no"
             /\ current_card' # None
             /\ current_card'[1] < Len(cards') ]_vars

\* C9: importing a text that does not parse as a card array leaves the
\* collection, the current position, the history window and the stored
\* contents unchanged and sends SetUploadError with the parser's message,
\* which the next step makes the displayed upload error.
C9_MalformedImportRejected ==
    [][ /\ \A k \in 1..Len(readers) :
             (ImportDelivered(k) /\ readers[k].defect # "")
             => /\ UNCHANGED <<cards, current_card, display_history, storage>>
                /\ crashed' = "no"
                /\ queue' = <<Msg("SetUploadError", None,
                                  Some(ParseMessage(readers[k].defect)), None)>>
        /\ (queue # <<>> /\ Head(queue).type = "SetUploadError")
             => /\ upload_error' = Head(queue).e
                /\ UNCHANGED <<cards, current_card, display_history, storage>>
      ]_vars

\* C9 witness: a malformed text was delivered and its parser message is the
\* upload error on display, the deck still being the one stored.
C9_Witness ==
    /\ upload_error = Some(ParseMessage("eof"))
    /\ readers = <<>>
    /\ crashed = "no"
    /\ cards = from_str(storage[1]).cards

\* C10: while the program runs, the history window holds at most
\* round(log2(N)) entries; it is empty whenever N <= 1.
C10_HistoryBounded ==
    crashed = "no" =>
      /\ Len(display_history) <= RoundLog2(N)
      /\ (N <= 1 => display_history = <<>>)

\* the card c with one counter raised by 1, an absent reverse counter
\* counting as 0
Raised(c, counter) ==
    CASE counter = "hits" -> [c EXCEPT !.hits = c.hits + 1]
      [] counter = "misses" -> [c EXCEPT !.misses = c.misses + 1]
      [] counter = "reverse_hits" ->
           [c EXCEPT !.reverse_hits = Some(unwrap_or_default(c.reverse_hits) + 1)]
      [] counter = "reverse_misses" ->
           [c EXCEPT !.reverse_misses =
                       Some(unwrap_or_default(c.reverse_misses) + 1)]

\* C11: a Hit or a Miss on a current card raises exactly one counter of that
\* card by 1 (hits or misses, or reverse_hits or reverse_misses in reverse
\* mode, an absent one counting as 0), leaves every other counter and every
\* other card as it was and does not touch the history window; a card that
\* thereby stands at one hit and one miss has goodness exactly 0.
C11_RecordRaisesOneCounter ==
    [][ ((StudyHit \/ StudyMiss) /\ current_card # None)
        => LET c == current_card[1] + 1
               counter ==
                 IF StudyHit
                 THEN (IF reverse_mode THEN "reverse_hits" ELSE "hits")
                 ELSE (IF reverse_mode THEN "reverse_misses" ELSE "misses")
           IN /\ crashed' = "no"
              /\ c \in 1..N
              /\ cards' = [cards EXCEPT ![c] = Raised(cards[c], counter)]
              /\ display_history' = display_history
              /\ (hits_misses(cards'[c], reverse_mode) = <<1, 1>>
                    => goodness(cards'[c], reverse_mode) = Zero) ]_vars

\* C11 witness: starting from the deck a, b without responses, one Hit and
\* one Miss have been recorded on the same card, the second just now.
C11_Witness ==
    /\ queue = <<M0("StoreCards"), M0("Next")>>
    /\ Prompts(cards) = Prompts(DeckAB)
    /\ \E k \in 1..N : cards[k].hits = 1 /\ cards[k].misses = 1
    /\ crashed = "no"

\* C12: Prev with an empty history window is a no-op: it raises no error and
\* leaves the current position, the history window and the cards unchanged.
C12_PrevEmptyNoOp ==
    [][ (Prev /\ display_history = <<>>)
        => /\ crashed' = "no"
           /\ UNCHANGED <<cards, current_card, display_history>> ]_vars

\* C12 witness: the deck a, b after one response and the Next that follows
\* it had a non-empty window; only a Prev empties it again, so here Prev has
\* run and a further Prev meets the empty window.
C12_Witness ==
    /\ Idle /\ mode = "Study"
    /\ Prompts(cards) = Prompts(DeckAB)
    /\ TotalResponses(cards) = 1
    /\ display_history = <<>>

\* C13: Prev with a non-empty history window removes exactly the entry pushed
\* last, makes it the current position (no draw) and leaves the other
\* entries and the cards unchanged; and with N >= 2 a Next pushes the
\* position that was current, so that a Prev right after it restores it.
C13_PrevPopsMostRecent ==
    [][ /\ (Prev /\ display_history # <<>>)
            => /\ current_card' = Some(display_history[Len(display_history)])
               /\ display_history' =
                    SubSeq(display_history, 1, Len(display_history) - 1)
               /\ cards' = cards
        /\ ((Next_ \/ QueuedNext) /\ N >= 2 /\ current_card # None)
            => /\ display_history' # <<>>
               /\ display_history'[Len(display_history')] = current_card[1]
      ]_vars

\* C13 witness: in the deck a, b the card that received the one response
\* was pushed by the Next after it and is current again with the window
\* empty: the Prev after that Next has restored it.
C13_Witness ==
    /\ Idle /\ mode = "Study"
    /\ Prompts(cards) = Prompts(DeckAB)
    /\ display_history = <<>>
    /\ current_card # None /\ current_card[1] < N
    /\ LET c == cards[current_card[1] + 1]
       IN c.hits + c.misses + unwrap_or_default(c.reverse_hits)
          + unwrap_or_default(c.reverse_misses) = 1

\* C14: a LocalStore::save through an instance is rejected with an error
\* whenever the contents under the key differ from what that instance last
\* loaded or last saved with success (the entry being gone included), and a
\* rejected save leaves the entry and every instance's value and checksum
\* unchanged; so of two instances that loaded the same contents and save
\* different values only the first save succeeds.
C14_SaveRejectedOnChange ==
    [][ LocalStoreSave
        => LET call == last_save'[1]
               self == stores[call.instance]
           IN /\ storage # Some(value(self))
                   => ~call.ok
              /\ ~call.ok
                   => UNCHANGED <<storage, stores>> ]_vars

\* C14 witness: two instances loaded the same contents; the first saved a
\* value, which is what the key now holds, and the save of a different
\* value through the second has just been rejected, leaving it as loaded.
C14_Witness ==
    /\ Len(stores) = 2
    /\ last_save # None
    /\ last_save[1].instance = 2 /\ ~last_save[1].ok
    /\ storage = Some(value(stores[1]))
    /\ value(stores[1]) \in SaveTexts
    /\ value(stores[2]) \notin SaveTexts
    /\ last_save[1].value # value(stores[1])
    /\ stores[2].checksum = hash(value(stores[2]))

\* C15: a load that finds nothing under the key (LocalStore::new, or
\* Model::create on a page load) writes the built-in default under the key
\* and uses it: afterwards the stored contents and the value in memory both
\* equal the default; a load that finds contents uses them and does not
\* write.
C15_LoadDefaultsWhenAbsent ==
    [][ /\ LocalStoreNew
            => LET inst == stores'[Len(stores')]
               IN IF storage = None
                  THEN /\ value(inst) \in DefaultDatas
                       /\ storage' = Some(value(inst))
                  ELSE /\ value(inst) = storage[1]
                       /\ storage' = storage
        /\ create
            => IF storage = None
               THEN /\ storage' = Some(to_string(DefaultDeck))
                    /\ cards' = DefaultDeck
                    /\ crashed' = "no"
               ELSE /\ storage' = storage
                    /\ (storage[1].defect = "" => cards' = storage[1].items)
      ]_vars

\* C15 witness: the page was loaded with the deck a, b, the entry was then
\* removed, and an instance opened after that found nothing: it holds the
\* default, which is now stored under the key.
C15_Witness ==
    /\ Prompts(cards) = Prompts(DeckAB)
    /\ stores # <<>>
    /\ value(stores[1]) = store_data
    /\ storage = Some(store_data)
    /\ last_save = None

\* the counters of card c are not below those of card b
CountersNotBelow(c, b) ==
    /\ c.hits >= b.hits
    /\ c.misses >= b.misses
    /\ (b.reverse_hits # None
         => c.reverse_hits # None /\ c.reverse_hits[1] >= b.reverse_hits[1])
    /\ (b.reverse_misses # None
         => c.reverse_misses # None
            /\ c.reverse_misses[1] >= b.reverse_misses[1])

\* the step is the confirmed delete of some position: the card there is
\* gone, the others are kept as they were, in order
DeleteStep ==
    \E i \in 0..(N - 1) :
      deletion_target = Some(i) /\ cards' = remove(cards, i)

\* every card is still at its position with no counter lowered
CountersKept ==
    /\ Len(cards') >= N
    /\ \A k \in 1..N : CountersNotBelow(cards'[k], cards[k])

\* C16 (as claimed): over every sequence of commands no counter of a card
\* decreases while the card exists; a card and its counts go only by the
\* delete of that card, and no command resets counters.
C16_CountersNeverDecrease ==
    [][ crashed' = "no" => (DeleteStep \/ CountersKept) ]_vars

\* C16 (amended): no counter of a card decreases while the card exists; a
\* card and its counts go only by the delete of that card or by a successful
\* import, which replaces every card by the cards of the imported text; no
\* other command lowers or resets a counter.
C16_CountersKeptButForImport ==
    [][ \/ DeleteStep
        \/ CountersKept
        \/ \E k \in 1..Len(readers) :
             /\ ImportDelivered(k)
             /\ readers[k].defect = ""
             /\ cards' = readers[k].items ]_vars

\* C16 witness: a card that has a response was edited (its prompt is the
\* text typed into the form and the edit is stored) and has kept its count.
C16_Witness ==
    /\ Idle /\ storage = Some(to_string(cards))
    /\ \E k \in 1..N :
         /\ cards[k].prompt \in FrontTexts
         /\ cards[k].hits + cards[k].misses >= 1

\* lo <= x <= hi for an f32 x that is a number
F32Within(x, lo, hi) ==
    x.kind = "num" /\ lo * x.den <= x.num /\ x.num <= hi * x.den

\* C17: for every card a session holds and in either direction, goodness
\* lies in [-1, 1] and the hit ratio in [0, 1], and both are 0 when the
\* card has no response in that direction.
C17_RatiosInRange ==
    \A k \in 1..N : \A reverse \in BOOLEAN :
      LET hm == hits_misses(cards[k], reverse)
          g == goodness(cards[k], reverse)
          r == hit_ratio(hm[1], hm[2])
      IN /\ hm[1] >= 0 /\ hm[2] >= 0
         /\ F32Within(g, -1, 1)
         /\ F32Within(r, 0, 1)
         /\ (hm[1] + hm[2] = 0 => g = Zero /\ r = Zero)

\* C17 witness: the Stats view shows, in reverse mode, a deck with a card
\* that has only misses (goodness -1), one with a response gained in this
\* session and one without any reverse response.
C17_Witness ==
    /\ mode = "Stats" /\ reverse_mode /\ crashed = "no"
    /\ \E k \in 1..N : goodness(cards[k], reverse_mode) = F32(-1, 1)
    /\ \E k \in 1..N : cards[k].reverse_hits = None
    /\ storage # Some(to_string(DeckAB))
    /\ Prompts(cards) = Prompts(DeckAB)

\* the mean of the goodness of the cards, card by card
MeanGoodness(cs, reverse) ==
    LET RECURSIVE Total(_)
        Total(k) == IF k = 0 THEN Zero
                    ELSE f32_add(goodness(cs[k], reverse), Total(k - 1))
    IN F32(Total(Len(cs)).num, Total(Len(cs)).den * Len(cs))

\* C18: the overall score the Stats view reports (stats_html, and the Stats
\* component) is 100 times the mean of goodness over all cards, unvisited
\* cards counting 0; for a deck of M >= 1 cards none of which is visited it
\* is exactly 0.
C18_OverallScore ==
    (mode = "Stats" /\ crashed = "no" /\ N >= 1)
    => LET expected == f32_scale(100, MeanGoodness(cards, reverse_mode))
       IN /\ stats_html(cards, reverse_mode).overall_score = expected
          /\ stats(cards, reverse_mode).overall_score = expected
          /\ (n_visited(cards, reverse_mode) = 0 => expected = Zero)

\* the cards known well: more than one response and goodness at or above
\* the threshold
KnownWell(cs, reverse, threshold) ==
    { k \in 1..Len(cs) :
        LET hm == hits_misses(cs[k], reverse)
        IN hm[1] + hm[2] > 1 /\ f32_ge(goodness(cs[k], reverse), threshold) }

\* C19: the percentage of cards known well that the Stats view reports is
\* 100 times the number of cards with more than one response and goodness
\* >= the threshold, over the number of cards: a card whose goodness equals
\* the threshold is counted, a card with one response is not.
C19_PercentKnownWell ==
    (mode = "Stats" /\ crashed = "no" /\ N >= 1)
    => /\ stats_html(cards, reverse_mode).percent_good =
            F32(100 * Cardinality(KnownWell(cards, reverse_mode,
                                            StatsHtmlCriterion)), N)
       /\ stats(cards, reverse_mode).percent_good =
            F32(100 * Cardinality(KnownWell(cards, reverse_mode,
                                            GOODNESS_CRITERION)), N)

\* C20: for an empty collection the Stats view divides nothing by zero and
\* reports overall score, percentage known well, percentage visited and
\* number of responses all equal to 0.
C20_EmptyStatsAreZero ==
    (mode = "Stats" /\ crashed = "no" /\ cards = <<>>)
    => LET v == stats_html(cards, reverse_mode)
       IN /\ v.overall_score = Zero
          /\ v.percent_good = Zero
          /\ v.percent_visited = Zero
          /\ v.n_responses = 0

\* C21: computing the statistics leaves the collection it was given with
\* the same cards in the same order with the same counts (stats_html, and
\* the Stats component), so that the positions in use still address the
\* same cards.
C21_StatsLeaveCards ==
    (mode = "Stats" /\ crashed = "no")
    => /\ stats_html(cards, reverse_mode).cards_after = cards
       /\ stats(cards, reverse_mode).cards_after = cards

\* position of a card in the collection (the prompts of a deck differ)
PositionOf(c) == CHOOSE k \in 1..N : cards[k] = c

\* rows lists every card once, best goodness first, cards of equal goodness
\* in the order of the collection
SortedStable(rows, reverse) ==
    /\ Len(rows) = N
    /\ { rows[k] : k \in 1..Len(rows) } = { cards[k] : k \in 1..N }
    /\ \A k \in 1..(Len(rows) - 1) :
         LET a == goodness(rows[k], reverse)
             b == goodness(rows[k + 1], reverse)
         IN \/ f32_gt(a, b)
            \/ a = b /\ PositionOf(rows[k]) < PositionOf(rows[k + 1])

\* C22: the Stats view lists the cards in descending order of goodness, and
\* cards of equal goodness in their order in the collection, in both
\* directions (stats_html, and the Stats component).
C22_RowsSortedStable ==
    (Cardinality({ cards[k].prompt : k \in 1..N }) = N)
    => \A reverse \in BOOLEAN :
         /\ SortedStable(stats_html(cards, reverse).rows, reverse)
         /\ SortedStable(stats(cards, reverse).rows, reverse)

\* C22 witness: the Stats view shows a deck that the sort reorders and in
\* which two cards have the same goodness.
C22_Witness ==
    /\ mode = "Stats" /\ crashed = "no"
    /\ stats_html(cards, reverse_mode).rows # cards
    /\ \E j, k \in 1..N :
         j < k /\ goodness(cards[j], reverse_mode) = goodness(cards[k], reverse_mode)

\* the cards cs with d more hits counted for card i in the direction that is
\* not studied: nothing else differs
WithInactiveHits(cs, reverse, i, d) ==
    [cs EXCEPT ![i + 1] =
        IF reverse THEN [@ EXCEPT !.hits = @ + d]
        ELSE [@ EXCEPT !.reverse_hits = Some(unwrap_or_default(@) + d)]]

\* the weight as a value: the Beta shapes, the baseline and the neglect
\* term 1/visits (1.0 when there was no visit)
WeightValue(w) ==
    [beta |-> w.beta,
     base |-> w.base,
     neglect |-> IF w.neglect = None THEN None
                 ELSE IF w.neglect[1] = 0 THEN Some(F32(1, 1))
                 ELSE Some(F32(1, w.neglect[1]))]

\* C23: the count-dependent parts of a card's selection weight (the Beta
\* shapes and the neglect term 1/visits) come from the counts of the
\* direction studied only: a collection that differs only in the counts of
\* the other direction yields the same weights.
C23_WeightsFromActiveCounts ==
    \A i \in 0..(N - 1) : \A d \in 1..2 :
        WeightValue(Weight(WithInactiveHits(cards, reverse_mode, i, d),
                           display_history, choose_missed, choose_neglected,
                           reverse_mode, i))
        = WeightValue(Weight(cards, display_history, choose_missed,
                             choose_neglected, reverse_mode, i))

\* the step puts one upload error at the back of the command queue and
\* leaves the collection and the current position as they were
UploadErrorReported ==
    /\ crashed' = "no"
    /\ Len(queue') = Len(queue) + 1
    /\ SubSeq(queue', 1, Len(queue)) = queue
    /\ queue'[Len(queue')].type = "SetUploadError"
    /\ queue'[Len(queue')].e # None
    /\ cards' = cards /\ current_card' = current_card

\* C24: every upload request delivers exactly one outcome: the request
\* with other than one file reports an upload error at once, the request
\* with one file starts a read, and every read that ends either replaces
\* the collection by the parsed cards or reports an upload error, the
\* failed read included; where an error is reported the collection and the
\* current position are unchanged.
C24_UploadDeliversOneOutcome ==
    [][ /\ UploadCards =>
            \/ Len(readers') = Len(readers) + 1 /\ queue' = queue
            \/ readers' = readers /\ UploadErrorReported
        /\ Len(readers') < Len(readers) =>
            \E k \in 1..Len(readers) :
                /\ readers' = remove(readers, k - 1)
                /\ \/ /\ from_str(readers[k]).ok
                      /\ cards' = from_str(readers[k]).cards
                      /\ queue' = queue
                   \/ UploadErrorReported ]_vars

\* C26: a Next processed while there is a current position appends that
\* position to the back of the history window and then, if the window holds
\* more than round(log2(N)) entries, removes the one oldest entry; the
\* entries that stay keep their order; without a current position the
\* window stays as it was.
C26_NextPushesThenEvictsOne ==
    [][ (Next_ \/ QueuedNext) =>
          IF current_card = None
          THEN display_history' = display_history
          ELSE LET pushed == Append(display_history, current_card[1])
               IN \/ /\ Len(pushed) <= RoundLog2(N)
                     /\ display_history' = pushed
                  \/ /\ Len(pushed) > RoundLog2(N)
                     /\ display_history' = SubSeq(pushed, 2, Len(pushed)) ]_vars

\* C26 witness: Next has filled the window of a deck of three cards (two
\* entries) and the card that is in neither entry is shown.
C26_Witness ==
    /\ crashed = "no" /\ mode = "Study" /\ N = 3
    /\ Len(display_history) = RoundLog2(N)
    /\ display_history = <<1, 2>> /\ current_card = Some(0)

\* C27: after every processed command, if the mode is Study and the
\* collection is not empty, a current card is selected; a current position
\* that a delete cleared is selected afresh by the command that enters Study
\* mode.
C27_StudyHasCurrent ==
    (mode = "Study" /\ N > 0) => current_card # None

\* C27 witness: the card table deleted a from the deck a, b and stored the
\* rest; back in Study mode the card b is selected.
C27_Witness ==
    /\ Idle /\ mode = "Study"
    /\ Prompts(cards) = <<"b">> /\ current_card = Some(0)
    /\ deletion_target = None
    /\ storage = Some(to_string(cards))

\* C28: deletion takes two steps.  The DeleteCard(i) that arms position i
\* changes neither the collection, the history window nor the current
\* position; a DeleteCard removes a card only from the armed position; and
\* as long as position i stays armed it holds the card it held when it was
\* armed, whatever is processed in between, so that the card removed is
\* the card that was armed.
C28_TwoStepDelete ==
    [][ /\ (DeleteCard /\ deletion_target' # None) =>
              UNCHANGED <<cards, display_history, current_card>>
        /\ (DeleteCard /\ cards' # cards) =>
              /\ deletion_target # None /\ deletion_target[1] < N
              /\ cards' = remove(cards, deletion_target[1])
        /\ \A i \in 0..(N - 1) :
              (deletion_target = Some(i) /\ deletion_target' = Some(i)
                 /\ i < Len(cards'))
              => cards'[i + 1].prompt = cards[i + 1].prompt ]_vars

\* the text in storage parses to the cards in memory
StorageHolds(stored, cs) ==
    stored # None /\ from_str(stored[1]).ok /\ from_str(stored[1]).cards = cs

\* C29: every command that changes the collection is followed by a store of
\* the collection (a StoreCards in the queue, or the import's own store in
\* the same step); after a Hit or Miss that counted, the queue holds
\* StoreCards and then Next; hence whenever the command queue is empty the
\* stored collection equals the collection in memory.
C29_ChangesAreStored ==
    [][ /\ cards' # cards =>
              \/ \E k \in 1..Len(queue') : queue'[k].type = "StoreCards"
              \/ StorageHolds(storage', cards')
        /\ ((Hit \/ Miss) /\ cards' # cards) =>
              queue' = <<M0("StoreCards"), M0("Next")>>
        /\ queue' = <<>> => StorageHolds(storage', cards') ]_vars

\* C30: the Edit command that opens the form selects a card of the
\* collection; while the form is open and the program runs the collection
\* and the chosen position stay as they are, an import completing in
\* between included; and
\* the Update (AddCard in Edit mode) replaces the prompt and the response of
\* the card at that position, keeps its counters, changes no other card and
\* adds none.
C30_UpdateEditsChosenCard ==
    [][ /\ (mode # "Edit" /\ mode' = "Edit") =>
              /\ cards' = cards
              /\ current_card' # None /\ current_card'[1] < N
        /\ (mode = "Edit" /\ mode' = "Edit" /\ crashed' = "no") =>
              UNCHANGED <<cards, current_card>>
        /\ (AddCard /\ mode = "Edit") =>
              /\ current_card # None /\ current_card[1] < N
              /\ cards' = [cards EXCEPT ![current_card[1] + 1] =
                             [@ EXCEPT !.prompt = new_front_text,
                                       !.response = new_back_text]] ]_vars

\* C31: after a successful LocalStore::save(v) the key holds v, value()
\* returns v and the instance's checksum is that of v; a save through an
\* instance succeeds exactly when the key holds what that instance last
\* loaded or saved, so consecutive saves by one instance succeed while no
\* other writer touches the key, and once a save is rejected the later ones
\* are too until the key holds that again; a rejected save changes neither
\* the key nor the instance, and no save changes another instance.
C31_SaveKeepsInstanceInStep ==
    [][ LocalStoreSave
        => LET call == last_save'[1]
               self == stores[call.instance]
               after == stores'[call.instance]
           IN /\ call.ok <=> storage = Some(value(self))
              /\ call.ok => /\ storage' = Some(call.value)
                            /\ value(after) = call.value
                            /\ after.checksum = hash(call.value)
              /\ ~call.ok => storage' = storage /\ after = self
              /\ \A j \in 1..Len(stores) :
                    j # call.instance => stores'[j] = stores[j]
              /\ \A j \in 1..Len(stores') :
                    stores'[j].checksum = hash(value(stores'[j])) ]_vars

\* C31 witness: an instance that had already saved has just saved again
\* with success, a different value; the key holds it, and the other
\* instance still holds what it loaded.
C31_Witness ==
    /\ Len(stores) = 2
    /\ last_save # None
    /\ last_save[1].instance = 1 /\ last_save[1].ok
    /\ last_save[1].value = Json(DeckAB, "eof", FALSE)
    /\ storage = Some(value(stores[1]))
    /\ value(stores[1]) = last_save[1].value
    /\ value(stores[2]) = to_string(DeckA)

\* C32: an upload error that is set is cleared by the timer callback, a
\* newer error replacing the pending clearing timer; and once the error has
\* been cleared no clearing timer remains scheduled: while no upload error
\* is displayed, no Timeout is pending in upload_clearer.
C32_NoTimerOnceCleared ==
    (crashed = "no" /\ upload_error = None) => upload_clearer # "Pending"

====
